---- MODULE Spec2Model ----
(***************************************************************************)
(* A model of the multilayer perceptron notebook                           *)
(* (src/multilayer-perceptrons.ipynb): the Model class, relu, predict,     *)
(* frob_squared and train.                                                 *)
(*                                                                         *)
(* Numbers.  The notebook computes with numpy float64 values.  The model   *)
(* computes with exact finite decimals, so that every value a training     *)
(* step produces from decimal inputs (weights such as 0.5, the weight      *)
(* decay 1e-5, 1/num_samples for 1, 2, 4 or 5 samples) is represented      *)
(* without rounding.  A number is a record                                 *)
(*     [neg |-> BOOLEAN, m |-> limbs, e |-> Nat]                           *)
(* standing for  (-1)^neg * (SUM_i m[i] * Base^(i-1)) * Base^(-e), the     *)
(* limbs m being digits in 0..Base-1, least significant first.  The        *)
(* representation is canonical (no leading zero limb, no trailing zero     *)
(* limb while e > 0, zero is [neg |-> FALSE, m |-> <<>>, e |-> 0]), so     *)
(* two numbers are equal exactly when their records are equal.             *)
(* A matrix is a sequence of rows, a row a sequence of numbers.            *)
(***************************************************************************)
EXTENDS Integers, Sequences, FiniteSets, TLC

\* ------------------------------------------------------------------------
\* Exact decimal arithmetic (stands for numpy's float64 scalars)
\* ------------------------------------------------------------------------

Base == 1000

Max2(a, b) == IF a >= b THEN a ELSE b

Limb(a, i) == IF i <= Len(a) THEN a[i] ELSE 0

RECURSIVE Carry(_, _)
\* limbs of (SUM_i xs[i]*Base^(i-1)) + c*Base^0, the xs being any integers
\* whose total is >= 0
Carry(xs, c) ==
    IF xs = <<>>
    THEN IF c = 0 THEN <<>> ELSE <<c % Base>> \o Carry(<<>>, c \div Base)
    ELSE LET v == Head(xs) + c
         IN  <<v % Base>> \o Carry(Tail(xs), v \div Base)

RECURSIVE Trim(_)
\* drop the most significant limbs that are zero
Trim(a) ==
    IF a = <<>> THEN <<>>
    ELSE IF a[Len(a)] = 0 THEN Trim(SubSeq(a, 1, Len(a) - 1))
    ELSE a

RECURSIVE LessFrom(_, _, _)
LessFrom(a, b, i) ==
    IF i = 0 THEN FALSE
    ELSE IF a[i] # b[i] THEN a[i] < b[i]
    ELSE LessFrom(a, b, i - 1)

\* a < b for trimmed magnitudes
MagLess(a, b) ==
    IF Len(a) # Len(b) THEN Len(a) < Len(b) ELSE LessFrom(a, b, Len(a))

MagAdd(a, b) ==
    Trim(Carry([i \in 1..Max2(Len(a), Len(b)) |-> Limb(a, i) + Limb(b, i)], 0))

\* a - b for magnitudes with a >= b
MagSub(a, b) ==
    Trim(Carry([i \in 1..Len(a) |-> a[i] - Limb(b, i)], 0))

RECURSIVE ConvSum(_, _, _, _)
\* SUM_{i = lo..hi} a[i] * b[k + 1 - i]
ConvSum(a, b, k, i) ==
    IF i > Len(a) \/ i > k THEN 0
    ELSE (IF k + 1 - i <= Len(b) THEN a[i] * b[k + 1 - i] ELSE 0)
         + ConvSum(a, b, k, i + 1)

MagMul(a, b) ==
    IF a = <<>> \/ b = <<>> THEN <<>>
    ELSE Trim(Carry([k \in 1..(Len(a) + Len(b) - 1) |-> ConvSum(a, b, k, 1)], 0))

Zero == [neg |-> FALSE, m |-> <<>>, e |-> 0]

RECURSIVE DropLow(_, _)
\* drop zero limbs below the point: <<m, e>> with the same value
DropLow(m, e) ==
    IF e > 0 /\ m # <<>> /\ m[1] = 0 THEN DropLow(Tail(m), e - 1) ELSE <<m, e>>

\* the canonical record of (-1)^neg * m * Base^(-e)
Num(neg, m, e) ==
    LET t == Trim(m)
        d == DropLow(t, e)
    IN  IF t = <<>> THEN Zero ELSE [neg |-> neg, m |-> d[1], e |-> d[2]]

\* the limbs of x at scale k >= x.e
Shift(x, k) == IF x.m = <<>> THEN <<>> ELSE [i \in 1..(k - x.e) |-> 0] \o x.m

\* an integer |n| < Base^3 as a number
FromInt(n) ==
    LET a == IF n < 0 THEN -n ELSE n
    IN  Num(n < 0, <<a % Base, (a \div Base) % Base, a \div (Base * Base)>>, 0)

\* n / Base^e as a number: Dec(5, 1) with Base = 1000 is not 0.5 but 0.005
Frac(n, e) == LET x == FromInt(n) IN Num(x.neg, x.m, e)

Neg(x) == IF x.m = <<>> THEN x ELSE [x EXCEPT !.neg = ~x.neg]

Add(x, y) ==
    LET k == Max2(x.e, y.e)
        a == Shift(x, k)
        b == Shift(y, k)
    IN  IF x.neg = y.neg THEN Num(x.neg, MagAdd(a, b), k)
        ELSE IF MagLess(a, b) THEN Num(y.neg, MagSub(b, a), k)
        ELSE Num(x.neg, MagSub(a, b), k)

Sub(x, y) == Add(x, Neg(y))

Mul(x, y) == Num(x.neg # y.neg, MagMul(x.m, y.m), x.e + y.e)

IsPos(x) == x.m # <<>> /\ ~x.neg

\* ------------------------------------------------------------------------
\* Matrices (stand for numpy's 2-D arrays): a sequence of rows
\* ------------------------------------------------------------------------

RECURSIVE SumSeq(_)
SumSeq(v) == IF v = <<>> THEN Zero ELSE Add(Head(v), SumSeq(Tail(v)))

Rows(A) == Len(A)
Cols(A) == Len(A[1])

\* np.dot of two 1-D arrays of the same length
dot(u, v) == SumSeq([k \in 1..Len(u) |-> Mul(u[k], v[k])])

\* A[:, c] with c counted from 0
Column(A, c) == [r \in 1..Rows(A) |-> A[r][c + 1]]

\* np.matmul of an (n x k) and a (k x m) matrix
matmul(A, B) ==
    [r \in 1..Rows(A) |-> [c \in 1..Cols(B) |-> dot(A[r], Column(B, c - 1))]]

\* np.matmul raises ValueError unless A has as many columns as B has rows
MatmulDefined(A, B) == Cols(A) = Rows(B)

\* np.transpose
transpose(A) == [c \in 1..Cols(A) |-> [r \in 1..Rows(A) |-> A[r][c]]]

\* np.tile(b, (n, 1)) of a (1 x k) matrix: n copies of its row
tile(b, n) == [r \in 1..n |-> b[1]]

\* numpy's broadcasting of two 2-D arrays: along each axis the sizes are equal
\* or one of them is 1 (else the operation raises ValueError); the result has
\* the larger size, and an operand of size 1 along an axis is repeated along it
Broadcastable(A, B) ==
    /\ Rows(A) = Rows(B) \/ Rows(A) = 1 \/ Rows(B) = 1
    /\ Cols(A) = Cols(B) \/ Cols(A) = 1 \/ Cols(B) = 1
BRows(A, B) == Max2(Rows(A), Rows(B))
BCols(A, B) == Max2(Cols(A), Cols(B))
Pick(A, r, c) == A[IF Rows(A) = 1 THEN 1 ELSE r][IF Cols(A) = 1 THEN 1 ELSE c]

\* elementwise A + B, A - B, np.multiply(A, B), c * A
madd(A, B) ==
    [r \in 1..BRows(A, B) |-> [c \in 1..BCols(A, B) |->
        Add(Pick(A, r, c), Pick(B, r, c))]]
msub(A, B) ==
    [r \in 1..BRows(A, B) |-> [c \in 1..BCols(A, B) |->
        Sub(Pick(A, r, c), Pick(B, r, c))]]
multiply(A, B) ==
    [r \in 1..BRows(A, B) |-> [c \in 1..BCols(A, B) |->
        Mul(Pick(A, r, c), Pick(B, r, c))]]
scale(x, A) == [r \in 1..Rows(A) |-> [c \in 1..Cols(A) |-> Mul(x, A[r][c])]]

\* np.sum(A, axis=0): the 1-D array of the column sums
sum_axis0(A) == [c \in 1..Cols(A) |-> SumSeq(Column(A, c - 1))]

\* np.trace of a square matrix
trace(A) == SumSeq([k \in 1..Rows(A) |-> A[k][k]])

\* np.zeros(A.shape)
zeros_like(A) == [r \in 1..Rows(A) |-> [c \in 1..Cols(A) |-> Zero]]

\* np.maximum(A, B), elementwise
maximum(A, B) ==
    [r \in 1..Rows(A) |-> [c \in 1..Cols(A) |->
        IF IsPos(Sub(B[r][c], A[r][c])) THEN B[r][c] ELSE A[r][c]]]

\* def relu(A)
relu(A) == maximum(A, zeros_like(A))

\* def frob_squared(A)
frob_squared(A) == trace(matmul(transpose(A), A))

\* ------------------------------------------------------------------------
\* Scalars of train
\* ------------------------------------------------------------------------

One == FromInt(1)

\* 1/2, as in  1/2*(...)  and  l/2*s
Half == Frac(500, 1)

\* l = 1e-5, the weight decay parameter
l == Frac(10, 2)

\* 1/num_samples, for the sample counts whose reciprocal is a finite decimal
Recip(n) ==
    CASE n = 1 -> One
      [] n = 2 -> Frac(500, 1)
      [] n = 4 -> Frac(250, 1)
      [] n = 5 -> Frac(200, 1)

\* ------------------------------------------------------------------------
\* The inputs the model is run on
\* ------------------------------------------------------------------------

\* total number of training steps (num_epochs * t) of one train call
MaxSteps == 2

\* layer-size sequences given to Model(layers)
LayerConfigs == {<<1, 1>>, <<1, 2>>, <<1, 1, 1>>, <<1, 2, 1>>, <<1, 1, 1, 1>>}

\* values rng.random draws for weights and biases: numbers in [0, 1)
WVals == {Zero, Half}
BVals == {Half}

\* entries of the input batches and of the target batches
XVals == {FromInt(-3), FromInt(1)}
YVals == {FromInt(0), FromInt(2)}

\* row counts of the batches
SampleCounts == {1, 2}

\* learning rates
LRates == {Half}

\* all (n x k) matrices with entries in S
Matrices(n, k, S) == [1..n -> [1..k -> S]]

\* ------------------------------------------------------------------------
\* State
\* ------------------------------------------------------------------------

VARIABLES
    layers, weights, biases,    \* the Model object: self.layers, self.weights, self.biases
    pc,                         \* where the program is
    inputs, outputs, num_epochs, lr, t,     \* the arguments of train
    epoch, run,                 \* loop counters of train
    activated, y_hat, errors, loss, s, objective, deltas, z_primes, j,
                                \* the locals of train
    caller,                     \* who called predict: "train" or "user"
    input, save_activated,      \* the arguments of predict; save_activated is
                                \* "None", or names the list it is bound to:
                                \* "activated" (train's list) or "cache" (the user's)
    last_predicted, i,          \* the locals of predict
    cache,                      \* the list a user passes as save_activated
    ret, ret_of,                \* the value the last finished call returned, and
                                \* the call that returned it: "predict" or "train"
    back,                       \* the pc a user's predict call returns to
    step_weights, step_biases,  \* history: the weights and biases at the start of
                                \* the current training step
    prev_call,                  \* history: <<[input, out]>> of the user's predict
                                \* call before the last one, <<>> if there is none
    self_y, self_n, self_input_size, self_x_matrix,
                                \* the polynomial-regression Model object: self.y,
                                \* self.n, self.input_size, self.x_matrix (its
                                \* self.weights is the variable weights)
    y_pred, e_pred, grad_y_pred \* the locals y_pred, e and grad_y_pred of its train

model_vars == <<layers, weights, biases>>
train_args == <<inputs, outputs, num_epochs, lr, t>>
train_locals == <<epoch, run, activated, y_hat, errors, loss, s, objective,
                  deltas, z_primes, j>>
predict_vars == <<caller, input, save_activated, last_predicted, i, cache, back>>
hist_vars == <<step_weights, step_biases, prev_call>>
poly_vars == <<self_y, self_n, self_input_size, self_x_matrix, y_pred, e_pred,
               grad_y_pred>>
vars == <<model_vars, pc, train_args, train_locals, predict_vars, ret, ret_of,
          hist_vars, poly_vars>>

\* len(self.layers)
L == Len(layers)

\* num_samples = len(inputs)
num_samples == Len(inputs)

\* ------------------------------------------------------------------------
\* Model.__init__
\* ------------------------------------------------------------------------

\* no polynomial-regression Model is constructed in a run of the multilayer
\* notebook
NoPolynomialModel ==
    /\ self_y = <<>> /\ self_n = 0 /\ self_input_size = 0 /\ self_x_matrix = <<>>
    /\ y_pred = <<>> /\ e_pred = <<>> /\ grad_y_pred = <<>>

\* self.weights and self.biases hold, for i in range(len(layers) - 1), a
\* (layers[i] x layers[i+1]) and a (1 x layers[i+1]) matrix of random numbers
InitWeights(ls) ==
    {w \in [1..(Len(ls) - 1) -> UNION {Matrices(ls[k], ls[k + 1], WVals) :
                                         k \in 1..(Len(ls) - 1)}] :
        \A k \in 1..(Len(ls) - 1) : w[k] \in Matrices(ls[k], ls[k + 1], WVals)}

InitBiases(ls) ==
    {b \in [1..(Len(ls) - 1) -> UNION {Matrices(1, ls[k + 1], BVals) :
                                         k \in 1..(Len(ls) - 1)}] :
        \A k \in 1..(Len(ls) - 1) : b[k] \in Matrices(1, ls[k + 1], BVals)}

Init ==
    /\ layers \in LayerConfigs
    /\ weights \in InitWeights(layers)
    /\ biases \in InitBiases(layers)
    /\ pc = "idle"
    /\ inputs = <<>> /\ outputs = <<>> /\ num_epochs = 0 /\ lr = Zero /\ t = 0
    /\ epoch = 0 /\ run = 0
    /\ activated = <<>> /\ y_hat = <<>> /\ errors = <<>> /\ loss = Zero
    /\ s = Zero /\ objective = Zero /\ deltas = <<>> /\ z_primes = <<>> /\ j = 0
    /\ caller = "user" /\ input = <<>> /\ save_activated = "None"
    /\ last_predicted = <<>> /\ i = 0 /\ cache = <<>> /\ back = "idle"
    /\ ret = <<>> /\ ret_of = "none"
    /\ step_weights = weights /\ step_biases = biases /\ prev_call = <<>>
    /\ NoPolynomialModel

\* ------------------------------------------------------------------------
\* predict(self, input, save_activated=None)
\* ------------------------------------------------------------------------

\* np.matmul(last_predicted, self.weights[i]) + b_matrix, with
\* b_matrix = np.tile(self.biases[i], (len(last_predicted), 1))
Affine(prev, W, b) == madd(matmul(prev, W), tile(b, Len(prev)))

\* (mutant of IsNotLast: ReLU is applied after the last transition too)
ReluOnEveryLayer(k, n) == TRUE

\* `i is not (len(self.layers) - 2)`: an identity test of two ints, which
\* CPython decides as inequality for the small ints (-5..256) of the model
IsNotLast(k, n) == k # n - 2

\* one pass of predict's loop: the new last_predicted for layer transition k
\* (counted from 0) of a network of n layer sizes
LayerOutput(prev, W, b, k, n) ==
    IF IsNotLast(k, n) THEN relu(Affine(prev, W, b)) ELSE Affine(prev, W, b)

\* (mutant of InputAfterLayer: last_predicted is the caller's batch itself and
\* the layer's output is written into it)
InputOverwritten(x, out) == out

\* last_predicted = input.copy(): last_predicted is a copy, so giving it a
\* layer's output leaves the caller's batch x as it is
InputAfterLayer(x, out) == x

\* the calls a user makes of predict: any one-sample batch, with or without
\* a list for the activations, before training; the training batch after it
UserBatches == IF pc = "done" THEN {inputs} ELSE Matrices(1, layers[1], XVals)
UserCacheChoices == IF pc = "done" THEN {FALSE} ELSE BOOLEAN

\* a user calls neural_net.predict(x) or neural_net.predict(x, [])
PredictCall(x, withCache) ==
    /\ pc \in {"idle", "done"}
    /\ caller' = "user" /\ back' = pc
    /\ input' = x
    /\ save_activated' = IF withCache THEN "cache" ELSE "None"
    /\ cache' = <<>>
    /\ last_predicted' = x
    /\ i' = 0
    /\ pc' = "predict"
    /\ prev_call' = IF ret_of = "predict"
                    THEN <<[input |-> input, out |-> ret,
                            cached |-> (save_activated = "cache")]>>
                    ELSE <<>>
    /\ ret' = <<>> /\ ret_of' = "none"
    /\ UNCHANGED <<poly_vars, model_vars, train_args, train_locals, step_weights, step_biases>>

\* for i in range(len(self.layers) - 1): one pass of the loop
PredictLayer ==
    /\ pc = "predict" /\ i < L - 1
    /\ MatmulDefined(last_predicted, weights[i + 1])
    /\ LET out == LayerOutput(last_predicted, weights[i + 1], biases[i + 1], i, L)
       IN  /\ last_predicted' = out
           /\ activated' = IF save_activated = "activated"
                           THEN Append(activated, out) ELSE activated
           /\ cache' = IF save_activated = "cache" THEN Append(cache, out) ELSE cache
           /\ input' = InputAfterLayer(input, out)
    /\ i' = i + 1
    /\ UNCHANGED <<poly_vars, model_vars, pc, train_args, epoch, run, y_hat, errors, loss, s,
                   objective, deltas, z_primes, j, caller, save_activated,
                   back, ret, ret_of, hist_vars>>

\* np.matmul(last_predicted, self.weights[i]) raises ValueError when the batch
\* has not as many columns as the weight matrix has rows; predict and, when
\* train called it, train end with that exception
PredictRaise ==
    /\ pc = "predict" /\ i < L - 1
    /\ ~MatmulDefined(last_predicted, weights[i + 1])
    /\ pc' = "ValueError"
    /\ UNCHANGED <<poly_vars, model_vars, train_args, train_locals, predict_vars, ret, ret_of,
                   hist_vars>>

\* return last_predicted  (the loop is over: range(len(self.layers) - 1) is
\* empty when len(self.layers) < 2)
PredictReturn ==
    /\ pc = "predict" /\ i >= L - 1
    /\ IF caller = "train"
       THEN /\ y_hat' = last_predicted
            /\ pc' = "objective"
            /\ UNCHANGED <<ret, ret_of>>
       ELSE /\ ret' = last_predicted /\ ret_of' = "predict"
            /\ pc' = back
            /\ UNCHANGED y_hat
    /\ UNCHANGED <<poly_vars, model_vars, train_args, epoch, run, activated, errors, loss, s,
                   objective, deltas, z_primes, j, predict_vars, hist_vars>>

\* ------------------------------------------------------------------------
\* train(self, inputs, outputs, num_epochs=5, lr=0.01, t=1000)
\* ------------------------------------------------------------------------

\* errors = y_hat - outputs
Errors(yh, out) == msub(yh, out)

\* loss = 1/2*(np.dot(errors[:,0], errors[:,0])**2)
Loss(err) ==
    LET d == dot(Column(err, 0), Column(err, 0))
    IN  Mul(Half, Mul(d, d))

\* for theta in self.weights: s += frob_squared(theta)    (s starts at 0)
SumFrob(ws) == SumSeq([k \in 1..Len(ws) |-> frob_squared(ws[k])])

\* objective = 1/num_samples*loss + l/2*s
Objective(n, ls, fs) == Add(Mul(Recip(n), ls), Mul(Mul(l, Half), fs))

\* a_primes = np.array(A.copy()); a_primes[a_primes > 0] = 1.0
APrimes(A) ==
    [r \in 1..Rows(A) |-> [c \in 1..Cols(A) |->
        IF IsPos(A[r][c]) THEN One ELSE A[r][c]]]

\* prev_z_prime = np.multiply(np.matmul(z, np.transpose(W)), a_primes)
PrevZPrime(z, W, A) == multiply(matmul(z, transpose(W)), APrimes(A))

\* (mutant of BackwardPasses: the backward loop stops one boundary early)
BackwardPassesShort(n) == n - 3

\* the passes of the backward loop: range(len(self.layers) - 2)
BackwardPasses(n) == n - 2

\* the passes of the deltas loop: range(len(self.layers) - 3)
DeltaPasses(n) == n - 3

\* (mutant of UpdatePasses: the update loop runs over every weight matrix)
UpdatePassesAll(nw) == nw

\* the passes of the update loop: range(len(self.weights) - 1)
UpdatePasses(nw) == nw - 1

\* self.weights[j] - lr*(1/num_samples*deltas[j] + l*self.weights[j])
UpdatedWeight(W, d, n, rate) ==
    msub(W, scale(rate, madd(scale(Recip(n), d), scale(l, W))))

\* self.biases[j] - lr/num_samples*np.sum(z_primes[j], axis=0)
UpdatedBias(b, z, n, rate) ==
    <<[c \in 1..Cols(b) |->
        Sub(b[1][c], Mul(Mul(rate, Recip(n)), sum_axis0(z)[c]))]>>

\* (mutant of WeightsAfterBackwardPass: the weight matrix k a pass of the
\* backward loop has read is updated in that pass, layer by layer)
WeightUpdatedInBackwardPass(ws, k, updated) == [ws EXCEPT ![k] = updated]

\* a pass of the backward loop assigns nothing to self.weights: the weight
\* matrix k it has read, like every other, is after the pass what it was
WeightsAfterBackwardPass(ws, k, updated) == ws

\* (mutant of NewActivated: the list of the step before is kept)
KeptActivated(old) == old

\* activated = []
NewActivated(old) == <<>>

\* (mutant of ReturnValue: train returns its errors)
ReturnErrors(yh, err) == err

\* return y_hat
ReturnValue(yh, err) == yh

\* the (num_epochs, t) a train call is given
StepCounts ==
    {p \in (1..MaxSteps) \X (1..MaxSteps) : p[1] * p[2] <= MaxSteps}

\* neural_net.train(x, y, ne, rate, tt)
TrainCall(x, y, ne, rate, tt) ==
    /\ pc = "idle"
    /\ inputs' = x /\ outputs' = y /\ num_epochs' = ne /\ lr' = rate /\ t' = tt
    /\ epoch' = 0 /\ run' = 0
    /\ pc' = "step"
    /\ ret' = <<>> /\ ret_of' = "none" /\ prev_call' = <<>>
    /\ input' = <<>> /\ save_activated' = "None" /\ last_predicted' = <<>>
    /\ i' = 0 /\ cache' = <<>> /\ caller' = "train" /\ back' = "idle"
    /\ UNCHANGED <<poly_vars, model_vars, activated, y_hat, errors, loss, s, objective,
                   deltas, z_primes, j, step_weights, step_biases>>

\* s = 0; activated = []; y_hat = self.predict(inputs, activated): the call
StepBegin ==
    /\ pc = "step"
    /\ s' = Zero
    /\ activated' = NewActivated(activated)
    /\ caller' = "train" /\ input' = inputs /\ save_activated' = "activated"
    /\ last_predicted' = inputs
    /\ i' = 0
    /\ pc' = "predict"
    /\ step_weights' = weights /\ step_biases' = biases
    /\ UNCHANGED <<poly_vars, model_vars, train_args, epoch, run, y_hat, errors, loss,
                   objective, deltas, z_primes, j, cache, back, ret, ret_of,
                   prev_call>>

\* compute the errors and objective (and log it every 100 runs)
ComputeObjective ==
    /\ pc = "objective"
    /\ Broadcastable(y_hat, outputs)
    /\ errors' = Errors(y_hat, outputs)
    /\ loss' = Loss(errors')
    /\ s' = SumFrob(weights)
    /\ objective' = Objective(num_samples, loss', s')
    /\ pc' = "zprimes"
    /\ UNCHANGED <<poly_vars, model_vars, train_args, epoch, run, activated, y_hat, deltas,
                   z_primes, j, predict_vars, ret, ret_of, hist_vars>>

\* errors = y_hat - outputs raises ValueError when the two shapes cannot be
\* broadcast together
ErrorsRaise ==
    /\ pc = "objective"
    /\ ~Broadcastable(y_hat, outputs)
    /\ pc' = "ValueError"
    /\ UNCHANGED <<poly_vars, model_vars, train_args, train_locals, predict_vars, ret, ret_of,
                   hist_vars>>

\* deltas = self.weights.copy(); z_primes = activated.copy();
\* z_primes[len(activated) - 1] = errors
BackwardInit ==
    /\ pc = "zprimes"
    /\ activated # <<>>
    /\ deltas' = weights
    /\ z_primes' = [activated EXCEPT ![Len(activated)] = errors]
    /\ j' = 0
    /\ pc' = "backward"
    /\ UNCHANGED <<poly_vars, model_vars, train_args, epoch, run, activated, y_hat, errors,
                   loss, s, objective, predict_vars, ret, ret_of, hist_vars>>

\* z_primes[len(activated) - 1] = errors  with activated empty is an
\* assignment to index -1 of an empty list: IndexError
BackwardInitRaise ==
    /\ pc = "zprimes"
    /\ activated = <<>>
    /\ deltas' = weights
    /\ z_primes' = <<>>
    /\ pc' = "IndexError"
    /\ UNCHANGED <<poly_vars, model_vars, train_args, epoch, run, activated, y_hat, errors,
                   loss, s, objective, j, predict_vars, ret, ret_of, hist_vars>>

\* for j in range(len(self.layers) - 2): one pass of the loop
BackwardLayer ==
    /\ pc = "backward" /\ j < BackwardPasses(L)
    /\ z_primes' = [z_primes EXCEPT ![Len(activated) - 2 - j + 1] =
            PrevZPrime(z_primes[Len(activated) - 1 - j + 1],
                       weights[L - 2 - j + 1],
                       activated[L - 3 - j + 1])]
    /\ weights' = WeightsAfterBackwardPass(weights, L - 2 - j + 1,
            UpdatedWeight(weights[L - 2 - j + 1], deltas[L - 2 - j + 1],
                          num_samples, lr))
    /\ j' = j + 1
    /\ UNCHANGED <<poly_vars, layers, biases, pc, train_args, epoch, run, activated,
                   y_hat, errors, loss, s, objective, deltas, predict_vars, ret,
                   ret_of, hist_vars>>

\* deltas[0] = np.matmul(np.transpose(inputs), z_primes[0])
DeltaFirst ==
    /\ pc = "backward" /\ j >= BackwardPasses(L)
    /\ MatmulDefined(transpose(inputs), z_primes[1])
    /\ deltas' = [deltas EXCEPT ![1] = matmul(transpose(inputs), z_primes[1])]
    /\ j' = 0
    /\ pc' = "deltas"
    /\ UNCHANGED <<poly_vars, model_vars, train_args, epoch, run, activated, y_hat, errors,
                   loss, s, objective, z_primes, predict_vars, ret, ret_of,
                   hist_vars>>

\* np.matmul(np.transpose(inputs), z_primes[0]) raises ValueError when the
\* error signal has not as many rows as the input batch
DeltaFirstRaise ==
    /\ pc = "backward" /\ j >= BackwardPasses(L)
    /\ ~MatmulDefined(transpose(inputs), z_primes[1])
    /\ pc' = "ValueError"
    /\ UNCHANGED <<poly_vars, model_vars, train_args, train_locals, predict_vars, ret, ret_of,
                   hist_vars>>

\* for j in range(len(self.layers) - 3): one pass of the loop
DeltaLayer ==
    /\ pc = "deltas" /\ j < DeltaPasses(L)
    /\ deltas' = [deltas EXCEPT ![j + 1 + 1] =
            matmul(transpose(activated[j + 1]), z_primes[j + 1 + 1])]
    /\ j' = j + 1
    /\ UNCHANGED <<poly_vars, model_vars, pc, train_args, epoch, run, activated, y_hat,
                   errors, loss, s, objective, z_primes, predict_vars, ret, ret_of,
                   hist_vars>>

\* the deltas loop is over: go on to the update loop
DeltasDone ==
    /\ pc = "deltas" /\ j >= DeltaPasses(L)
    /\ j' = 0
    /\ pc' = "update"
    /\ UNCHANGED <<poly_vars, model_vars, train_args, epoch, run, activated, y_hat, errors,
                   loss, s, objective, deltas, z_primes, predict_vars, ret, ret_of,
                   hist_vars>>

\* for j in range(len(self.weights) - 1): one pass of the loop
UpdateLayer ==
    /\ pc = "update" /\ j < UpdatePasses(Len(weights))
    /\ weights' = [weights EXCEPT ![j + 1] =
            UpdatedWeight(weights[j + 1], deltas[j + 1], num_samples, lr)]
    /\ biases' = [biases EXCEPT ![j + 1] =
            UpdatedBias(biases[j + 1], z_primes[j + 1], num_samples, lr)]
    /\ j' = j + 1
    /\ UNCHANGED <<poly_vars, layers, pc, train_args, epoch, run, activated, y_hat, errors,
                   loss, s, objective, deltas, z_primes, predict_vars, ret, ret_of,
                   hist_vars>>

\* the update loop is over: the next run, the next epoch (after the epoch's
\* print), or  return y_hat
StepEnd ==
    /\ pc = "update" /\ j >= UpdatePasses(Len(weights))
    /\ IF run + 1 < t
       THEN /\ run' = run + 1 /\ epoch' = epoch /\ pc' = "step"
            /\ UNCHANGED <<ret, ret_of>>
       ELSE IF epoch + 1 < num_epochs
       THEN /\ run' = 0 /\ epoch' = epoch + 1 /\ pc' = "step"
            /\ UNCHANGED <<ret, ret_of>>
       ELSE /\ run' = run /\ epoch' = epoch /\ pc' = "done"
            /\ ret' = ReturnValue(y_hat, errors) /\ ret_of' = "train"
    /\ UNCHANGED <<poly_vars, model_vars, train_args, activated, y_hat, errors, loss, s,
                   objective, deltas, z_primes, j, predict_vars, hist_vars>>

\* train is called with (inputs, outputs) batches of num_samples rows, of
\* layers[0] features and of layers[last] targets
Next ==
    \/ \E x \in UserBatches, withCache \in UserCacheChoices : PredictCall(x, withCache)
    \/ PredictLayer
    \/ PredictReturn
    \/ \E n \in SampleCounts :
         \E x \in Matrices(n, layers[1], XVals), y \in Matrices(n, layers[L], YVals),
            p \in StepCounts, rate \in LRates :
              TrainCall(x, y, p[1], rate, p[2])
    \/ StepBegin
    \/ ComputeObjective
    \/ BackwardInit
    \/ BackwardLayer
    \/ DeltaFirst
    \/ DeltaLayer
    \/ DeltasDone
    \/ UpdateLayer
    \/ StepEnd

Spec == Init /\ [][Next]_vars

\* ------------------------------------------------------------------------
\* The same program under any call: Models of any layer-size sequence, and
\* train and predict called with batches of any row and column counts
\* ------------------------------------------------------------------------

\* layer-size sequences given to Model(layers), those of fewer than two
\* entries included
AnyLayerConfigs == {<<>>, <<1>>, <<1, 1>>, <<1, 1, 1>>, <<1, 1, 1, 1>>}

\* entries, row counts and column counts of the batches
AnyXVals == {FromInt(1)}
AnyYVals == {FromInt(0), FromInt(2)}
AnyCounts == {1, 2}
AnyTargetRows == {1, 2, 3}

\* the input batches: any row count, any feature count
AnyBatches == UNION {Matrices(n, k, AnyXVals) : n \in AnyCounts, k \in AnyCounts}

\* the target batches: any row count; as many columns as the network has
\* outputs (one for a network without layers)
AnyTargets ==
    UNION {Matrices(n, IF L = 0 THEN 1 ELSE layers[L], AnyYVals) : n \in AnyTargetRows}

AnyUserBatches == IF pc = "done" THEN {inputs} ELSE AnyBatches

InitAnyCall ==
    /\ layers \in AnyLayerConfigs
    /\ weights \in InitWeights(layers)
    /\ biases \in InitBiases(layers)
    /\ pc = "idle"
    /\ inputs = <<>> /\ outputs = <<>> /\ num_epochs = 0 /\ lr = Zero /\ t = 0
    /\ epoch = 0 /\ run = 0
    /\ activated = <<>> /\ y_hat = <<>> /\ errors = <<>> /\ loss = Zero
    /\ s = Zero /\ objective = Zero /\ deltas = <<>> /\ z_primes = <<>> /\ j = 0
    /\ caller = "user" /\ input = <<>> /\ save_activated = "None"
    /\ last_predicted = <<>> /\ i = 0 /\ cache = <<>> /\ back = "idle"
    /\ ret = <<>> /\ ret_of = "none"
    /\ step_weights = weights /\ step_biases = biases /\ prev_call = <<>>
    /\ NoPolynomialModel

NextAnyCall ==
    \/ \E x \in AnyUserBatches, withCache \in UserCacheChoices :
         PredictCall(x, withCache)
    \/ PredictLayer
    \/ PredictRaise
    \/ PredictReturn
    \/ \E x \in AnyBatches, y \in AnyTargets, p \in StepCounts, rate \in LRates :
         TrainCall(x, y, p[1], rate, p[2])
    \/ StepBegin
    \/ ComputeObjective
    \/ ErrorsRaise
    \/ BackwardInit
    \/ BackwardInitRaise
    \/ BackwardLayer
    \/ DeltaFirst
    \/ DeltaFirstRaise
    \/ DeltaLayer
    \/ DeltasDone
    \/ UpdateLayer
    \/ StepEnd

SpecAnyCall == InitAnyCall /\ [][NextAnyCall]_vars

\* ------------------------------------------------------------------------
\* The polynomial-regression notebook: Model(x, y, n) and its train
\* ------------------------------------------------------------------------

RECURSIVE Power(_, _)
\* an entry of np.power(x, i)
Power(x, k) == IF k = 0 THEN One ELSE Mul(x, Power(x, k - 1))

\* self.x_matrix: np.ones(self.input_size), then np.vstack of np.power(x, i)
\* for i in range(1, self.n+1): row i holds the i-th powers of the inputs
XMatrix(x, n) ==
    [r \in 1..(n + 1) |-> [c \in 1..Len(x) |->
        IF r = 1 THEN One ELSE Power(x[c], r - 1)]]

\* the orders n, the sample counts and the learning rates (0.5, and train's
\* default lr=0.01) the polynomial Model is run on
PolyOrders == {1, 2}
PolyCounts == {1, 2}
PolyLRates == {Half, Frac(10, 1)}

\* 1-D arrays of length n with entries in S
Vectors(n, S) == [1..n -> S]

\* the variables of the multilayer notebook, which a run of the polynomial
\* notebook does not have
mlp_only == <<layers, biases, inputs, outputs, activated, y_hat, errors, loss, s,
              objective, deltas, z_primes, j, predict_vars, ret, ret_of,
              step_biases, prev_call>>

\* third_order = Model(x, y, n)
PolyInit ==
    /\ self_n \in PolyOrders
    /\ self_input_size \in PolyCounts
    /\ \E x \in Vectors(self_input_size, XVals) : self_x_matrix = XMatrix(x, self_n)
    /\ self_y \in Vectors(self_input_size, YVals)
    /\ weights \in Matrices(1, self_n + 1, WVals)
    /\ pc = "poly_idle"
    /\ num_epochs = 0 /\ lr = Zero /\ t = 0 /\ epoch = 0 /\ run = 0
    /\ y_pred = <<>> /\ e_pred = <<>> /\ grad_y_pred = <<>>
    /\ step_weights = weights
    /\ layers = <<>> /\ biases = <<>> /\ inputs = <<>> /\ outputs = <<>>
    /\ activated = <<>> /\ y_hat = <<>> /\ errors = <<>> /\ loss = Zero
    /\ s = Zero /\ objective = Zero /\ deltas = <<>> /\ z_primes = <<>> /\ j = 0
    /\ caller = "user" /\ input = <<>> /\ save_activated = "None"
    /\ last_predicted = <<>> /\ i = 0 /\ cache = <<>> /\ back = "idle"
    /\ ret = <<>> /\ ret_of = "none"
    /\ step_biases = <<>> /\ prev_call = <<>>

\* (mutant of PolyErrors: the error is taken as target minus prediction)
PolyErrorsReversed(yp, yv) == msub(<<yv>>, yp)

\* e = y_pred - self.y: a (1 x N) matrix minus a 1-D array of N entries
PolyErrors(yp, yv) == msub(yp, <<yv>>)

\* grad_y_pred = 1/self.input_size*e
GradYPred(n, ev) == scale(Recip(n), ev)

\* self.weights -= lr*np.matmul(grad_y_pred, np.transpose(self.x_matrix))
PolyUpdatedWeights(W, g, X, rate) == msub(W, scale(rate, matmul(g, transpose(X))))

\* third_order.train(ne, rate, tt)
PolyTrainCall(ne, rate, tt) ==
    /\ pc = "poly_idle"
    /\ num_epochs' = ne /\ lr' = rate /\ t' = tt
    /\ epoch' = 0 /\ run' = 0
    /\ pc' = "poly_run"
    /\ UNCHANGED <<weights, step_weights, poly_vars, mlp_only>>

\* y_pred = np.matmul(self.weights, self.x_matrix); e = y_pred - self.y
\* (and the MSE is logged every 100 runs)
PolyForward ==
    /\ pc = "poly_run"
    /\ y_pred' = matmul(weights, self_x_matrix)
    /\ e_pred' = PolyErrors(y_pred', self_y)
    /\ step_weights' = weights
    /\ pc' = "poly_grad"
    /\ UNCHANGED <<weights, num_epochs, lr, t, epoch, run, self_y, self_n,
                   self_input_size, self_x_matrix, grad_y_pred, mlp_only>>

\* grad_y_pred = ...; self.weights -= ...; then the next run, the next epoch
\* (after the epoch's print), or the end of train
PolyUpdate ==
    /\ pc = "poly_grad"
    /\ grad_y_pred' = GradYPred(self_input_size, e_pred)
    /\ weights' = PolyUpdatedWeights(weights, grad_y_pred', self_x_matrix, lr)
    /\ IF run + 1 < t
       THEN run' = run + 1 /\ epoch' = epoch /\ pc' = "poly_run"
       ELSE IF epoch + 1 < num_epochs
       THEN run' = 0 /\ epoch' = epoch + 1 /\ pc' = "poly_run"
       ELSE run' = run /\ epoch' = epoch /\ pc' = "poly_done"
    /\ UNCHANGED <<num_epochs, lr, t, step_weights, self_y, self_n,
                   self_input_size, self_x_matrix, y_pred, e_pred, mlp_only>>

PolyNext ==
    \/ \E p \in StepCounts, rate \in PolyLRates : PolyTrainCall(p[1], rate, p[2])
    \/ PolyForward
    \/ PolyUpdate

PolySpec == PolyInit /\ [][PolyNext]_vars

\* ------------------------------------------------------------------------
\* predict as a function of the weights, the biases and the batch
\* ------------------------------------------------------------------------

RECURSIVE Forward(_, _, _, _)
\* last_predicted after k passes of predict's loop on batch x
Forward(ws, bs, x, k) ==
    IF k = 0 THEN x
    ELSE LayerOutput(Forward(ws, bs, x, k - 1), ws[k], bs[k], k - 1, Len(ws) + 1)

\* the objective a training step computes from weights ws and biases bs on
\* the batch and targets of the train call
ObjectiveAt(ws, bs) ==
    Objective(num_samples,
              Loss(Errors(Forward(ws, bs, inputs, Len(ws)), outputs)),
              SumFrob(ws))

\* ========================================================================
\* The claims.  What a claim states is written out entry by entry from its
\* wording, with the scalar arithmetic only, and compared with the state
\* the actions above produce.
\* ========================================================================

\* a training step has run to its end (its deltas, z_primes, activated and
\* y_hat are still held; step_weights, step_biases are those it started with)
StepFinished == pc \in {"step", "done"} /\ deltas # <<>>

\* x squared
Sq(x) == Mul(x, x)

\* SUM_{r, c} A[r][c]^2
SumSquares(A) ==
    SumSeq([r \in 1..Len(A) |-> SumSeq([c \in 1..Len(A[r]) |-> Sq(A[r][c])])])

\* (A^T * B)[a][c] = SUM_r A[r][a] * B[r][c]
TransposeTimes(A, B, a, c) == SumSeq([r \in 1..Len(A) |-> Mul(A[r][a], B[r][c])])

RECURSIVE StatedOutput(_, _, _, _)
\* the output of layer transition k (from 0) as C3 states it: previous *
\* weights[k] + bias[k] on every row, max(x, 0) for k < L-2, nothing for k = L-2
StatedOutput(ws, bs, x, k) ==
    LET prev == IF k = 0 THEN x ELSE StatedOutput(ws, bs, x, k - 1)
        pre(r, c) ==
            Add(SumSeq([m \in 1..Len(prev[r]) |-> Mul(prev[r][m], ws[k + 1][m][c])]),
                bs[k + 1][1][c])
    IN  [r \in 1..Len(x) |-> [c \in 1..layers[k + 2] |->
            IF k < L - 2 /\ pre(r, c).neg THEN Zero ELSE pre(r, c)]]

RECURSIVE StatedErrorSignal(_)
\* errorSignal[k] (k from 0) as C4 states it, from this step's prediction,
\* targets, weights and cached forward outputs
StatedErrorSignal(k) ==
    IF k = L - 2
    THEN [r \in 1..Len(y_hat) |-> [c \in 1..layers[L] |->
            Sub(y_hat[r][c], outputs[r][c])]]
    ELSE LET nxt == StatedErrorSignal(k + 1)
         IN  [r \in 1..Len(y_hat) |-> [c \in 1..layers[k + 2] |->
                Mul(SumSeq([m \in 1..layers[k + 3] |->
                        Mul(nxt[r][m], weights[k + 2][c][m])]),
                    IF IsPos(activated[k + 1][r][c]) THEN One ELSE Zero)]]

\* the gradient of weight matrix k (k from 0) as C5 states it
StatedGradient(k) ==
    [a \in 1..layers[k + 1] |-> [c \in 1..layers[k + 2] |->
        TransposeTimes(IF k = 0 THEN inputs ELSE activated[k], z_primes[k + 1], a, c)]]

\* weight_k - lr*((1/numSamples)*gradient + lambda*weight_k), entry by entry
StatedNewWeight(W, g) ==
    [a \in 1..Len(W) |-> [c \in 1..Len(W[a]) |->
        Sub(W[a][c], Mul(lr, Add(Mul(Recip(num_samples), g[a][c]), Mul(l, W[a][c]))))]]

\* bias_k - (lr/numSamples)*columnSum(errorSignal_k)
StatedNewBias(b, z) ==
    <<[c \in 1..Len(b[1]) |->
        Sub(b[1][c], Mul(Mul(lr, Recip(num_samples)),
                         SumSeq([r \in 1..Len(z) |-> z[r][c]])))]>>

\* C1 (as stated): at the end of every training step EVERY weight matrix i in
\* 0..L-2, the last one included, is weight_i - lr*((1/numSamples)*gradient_i
\* + lambda*weight_i) and EVERY bias vector i is bias_i - (lr/numSamples) *
\* columnSum(errorSignal_i), with the step's own gradient_i and errorSignal_i.
C1_EveryLayerUpdated ==
    StepFinished =>
        \A k \in 1..(L - 1) :
            /\ weights[k] = StatedNewWeight(step_weights[k], deltas[k])
            /\ biases[k] = StatedNewBias(step_biases[k], z_primes[k])

\* C2 (as stated): the objective a step computes is (1/(2*numSamples)) * (sum
\* over all samples and all output columns of (prediction - target)^2) +
\* (lambda/2) * (sum over all weight matrices of their squared entries).
C2_ObjectiveIsMeanSquaredError ==
    pc = "zprimes" =>
        objective =
            Add(Mul(Mul(Half, Recip(num_samples)),
                    SumSquares([r \in 1..Len(y_hat) |-> [c \in 1..Len(y_hat[r]) |->
                        Sub(y_hat[r][c], outputs[r][c])]])),
                Mul(Mul(l, Half),
                    SumSeq([k \in 1..Len(weights) |-> SumSquares(weights[k])])))

\* C3: after i passes of its loop predict holds the output of transition i-1
\* as stated (affine map with the bias on every row, ReLU for every transition
\* but the last, nothing for the last), and what it returns has numSamples
\* rows of layers[L-1] entries.
C3_ForwardPropagation ==
    pc = "predict" =>
        /\ last_predicted =
              IF i = 0 THEN input ELSE StatedOutput(weights, biases, input, i - 1)
        /\ i = L - 1 =>
              /\ Len(last_predicted) = Len(input)
              /\ \A r \in 1..Len(last_predicted) : Len(last_predicted[r]) = layers[L]

\* a hidden layer of a training batch has a unit ReLU cut to 0 and a unit it
\* let through, and predict is about to return
C3_Witness ==
    /\ pc = "predict" /\ i = L - 1 /\ L >= 3 /\ caller = "train"
    /\ \E r \in 1..Len(activated[1]) : activated[1][r][1] = Zero
    /\ \E r \in 1..Len(activated[1]) : IsPos(activated[1][r][1])

\* C4: once the backward pass of a step is over, errorSignal[L-2] is prediction
\* - target and errorSignal[k], k = L-3..0, is (errorSignal[k+1] *
\* weights[k+1]^T) times 1 where the cached output of transition k is > 0 and
\* times 0 elsewhere; the list holds an error signal at every index 0..L-2.
C4_ErrorSignals ==
    pc = "deltas" =>
        /\ Len(z_primes) = L - 1
        /\ \A k \in 0..(L - 2) : z_primes[k + 1] = StatedErrorSignal(k)

\* the backward pass of a network with a hidden layer is over, a hidden unit
\* was cut to 0 for one sample and passes a non-zero error for another
C4_Witness ==
    /\ pc = "deltas" /\ L >= 3
    /\ \E r \in 1..Len(activated[1]) : activated[1][r][1] = Zero
    /\ \E r \in 1..Len(z_primes[1]) : z_primes[1][r][1] # Zero

\* C5 (as stated): when the gradients of a step are computed, the gradient of
\* weight matrix 0 is input^T * errorSignal[0] and that of EVERY weight matrix
\* j, 1 <= j <= L-2, is cachedActivation[j-1]^T * errorSignal[j].
C5_EveryGradientComputed ==
    (pc = "update" /\ j = 0) =>
        \A k \in 0..(L - 2) : deltas[k + 1] = StatedGradient(k)

\* C6: while the backward pass of a step runs, the cache holds exactly L-1
\* matrices, entry k the output of transition k of this step's forward pass on
\* the training batch (so neither the batch nor anything of an earlier step),
\* the last one being the prediction.
C6_ActivationCache ==
    pc \in {"zprimes", "backward", "deltas"} =>
        /\ Len(activated) = L - 1
        /\ \A k \in 0..(L - 2) :
              activated[k + 1] = StatedOutput(weights, biases, inputs, k)
        /\ activated[L - 1] = y_hat

\* the backward pass of a second (or later) step of a network with a hidden
\* layer, whose weights the earlier step has changed
C6_Witness ==
    /\ pc = "deltas" /\ L >= 3 /\ epoch + run >= 1
    /\ \E k \in 1..(L - 1) : \E r \in 1..Len(weights[k]) :
          weights[k][r][1].e > 1

\* C7 (as stated): a Model of exactly two layer sizes performs linear
\* regression: every step moves its weight matrix and bias by the update
\* computed from input^T * (prediction - target).
C7_TwoLayerRegression ==
    (StepFinished /\ L = 2) =>
        LET err == [r \in 1..Len(y_hat) |-> [c \in 1..layers[2] |->
                        Sub(y_hat[r][c], outputs[r][c])]]
            g == [a \in 1..layers[1] |-> [c \in 1..layers[2] |->
                        TransposeTimes(inputs, err, a, c)]]
        IN  /\ weights[1] = StatedNewWeight(step_weights[1], g)
            /\ biases[1] = StatedNewBias(step_biases[1], err)

\* the sign of x: -1, 0 or 1
Sign(x) == IF x.m = <<>> THEN 0 ELSE IF x.neg THEN -1 ELSE 1

\* the signs of the hidden pre-activations of the training batch under
\* weights ws and biases bs
HiddenSigns(ws, bs) ==
    [k \in 1..(Len(ws) - 1) |->
        LET pre == Affine(Forward(ws, bs, inputs, k - 1), ws[k], bs[k])
        IN  [r \in 1..Len(pre) |-> [c \in 1..Len(pre[r]) |-> Sign(pre[r][c])]]]

\* no hidden pre-activation is exactly 0 under the model's weights and biases
NoKink ==
    \A k \in 1..(L - 2) : \A r \in 1..num_samples : \A c \in 1..layers[k + 1] :
        HiddenSigns(weights, biases)[k][r][c] # 0

\* the step of the difference quotient: 0.001
StepH == Frac(1, 1)

\* weights and biases with d added to one weight, to one bias
WeightsPlus(k, a, c, d) == [weights EXCEPT ![k][a][c] = Add(@, d)]
BiasesPlus(k, c, d) == [biases EXCEPT ![k][1][c] = Add(@, d)]

\* In one parameter, and while no hidden unit changes sign, the objective the
\* step computes is a polynomial of degree <= 4, so its derivative f' is given
\* exactly by   12 h f' = 8 (f(+h) - f(-h)) - (f(+2h) - f(-2h)).
\* FivePoint(fp, fm, fpp, fmm) is the right-hand side.
FivePoint(fp, fm, fpp, fmm) ==
    Sub(Mul(FromInt(8), Sub(fp, fm)), Sub(fpp, fmm))

TwoH == Add(StepH, StepH)

WeightDerivativeMatches(k, a, c) ==
    LET ws(d) == WeightsPlus(k, a, c, d)
        pts == {StepH, Neg(StepH), TwoH, Neg(TwoH)}
        g == Add(Mul(Recip(num_samples), deltas[k][a][c]), Mul(l, weights[k][a][c]))
    IN  (\A d \in pts : HiddenSigns(ws(d), biases) = HiddenSigns(weights, biases)) =>
            Mul(Mul(FromInt(12), StepH), g) =
                FivePoint(ObjectiveAt(ws(StepH), biases),
                          ObjectiveAt(ws(Neg(StepH)), biases),
                          ObjectiveAt(ws(TwoH), biases),
                          ObjectiveAt(ws(Neg(TwoH)), biases))

BiasDerivativeMatches(k, c) ==
    LET bs(d) == BiasesPlus(k, c, d)
        pts == {StepH, Neg(StepH), TwoH, Neg(TwoH)}
        g == Mul(Recip(num_samples), SumSeq([r \in 1..Len(z_primes[k]) |-> z_primes[k][r][c]]))
    IN  (\A d \in pts : HiddenSigns(weights, bs(d)) = HiddenSigns(weights, biases)) =>
            Mul(Mul(FromInt(12), StepH), g) =
                FivePoint(ObjectiveAt(weights, bs(StepH)),
                          ObjectiveAt(weights, bs(Neg(StepH))),
                          ObjectiveAt(weights, bs(TwoH)),
                          ObjectiveAt(weights, bs(Neg(TwoH))))

\* C8 (as stated): in a network with at least two hidden layers, where no
\* hidden pre-activation is exactly 0, (1/numSamples)*gradient + lambda*weight
\* for every weight and (1/numSamples)*columnSum(errorSignal) for every bias
\* is the partial derivative of the objective the same step computes.
C8_GradientCheck ==
    (pc = "update" /\ j = 0 /\ L >= 4 /\ NoKink) =>
        \A k \in 1..(L - 1) : \A c \in 1..layers[k + 1] :
            /\ BiasDerivativeMatches(k, c)
            /\ \A a \in 1..layers[k] : WeightDerivativeMatches(k, a, c)

\* C9: predict is idempotent and read-only: a predict call that follows
\* another on the same batch, with or without a list for the activations,
\* returns what that one returned; and no pass of predict's loop, nor its
\* return, changes the batch it was given, a weight matrix, a bias vector or
\* the layer sizes.
C9_Idempotent ==
    (ret_of = "predict" /\ prev_call # <<>> /\ prev_call[1].input = input) =>
        ret = prev_call[1].out

C9_ReadOnly ==
    pc = "predict" =>
        /\ input' = input /\ inputs' = inputs
        /\ weights' = weights /\ biases' = biases /\ layers' = layers

C9_PredictIdempotentReadOnly == []C9_Idempotent /\ [][C9_ReadOnly]_vars

\* two predict calls on the same batch have returned, one of them given a
\* list for the activations and the other not
C9_Witness ==
    /\ ret_of = "predict" /\ prev_call # <<>> /\ prev_call[1].input = input
    /\ prev_call[1].cached # (save_activated = "cache")
    /\ ret # <<>>

\* C10 (as stated): the value train returns equals predict(inputs) evaluated
\* with the weights and biases the model holds when train returns.
C10_ReturnsFinalPrediction ==
    (pc = "done" /\ ret_of = "predict" /\ input = inputs) => ret = y_hat

\* C10 (amended): the value train returns is the prediction of the forward
\* pass of its last training step: predict(inputs) evaluated with the weights
\* and biases the model held before the last optimizer step.
C10_ReturnsLastForwardPass ==
    (pc = "done" /\ ret_of = "train") =>
        ret = StatedOutput(step_weights, step_biases, inputs, L - 2)

\* train has returned and its last optimizer step changed a weight
C10_Witness ==
    pc = "done" /\ ret_of = "train" /\ weights # step_weights

\* ------------------------------------------------------------------------
\* Calls on a Model of fewer than two layer sizes, and calls with batches of
\* mismatched shapes
\* ------------------------------------------------------------------------

\* predict or train is running, or has returned a result (an exception ends
\* the call: pc is then the exception's name)
CallEntered == pc \in {"objective", "zprimes", "backward", "deltas", "update", "done"}
                 \/ ret_of # "none"

\* C11: a layer-size sequence of fewer than two entries never yields a usable
\* network: predict and train fail with an error instead of going on and
\* returning a result, so every Model they operate on has len(layers) >= 2
\* and at least one weight matrix
C11_DegenerateNetworkRejected ==
    CallEntered => L >= 2 /\ Len(weights) >= 1

\* the train call under way was given a target batch whose row count differs
\* from the input batch's, or an input batch whose feature count differs from
\* layers[0]
TrainMismatch ==
    /\ caller = "train" /\ pc # "idle"
    /\ \/ Rows(outputs) # Rows(inputs)
       \/ L >= 1 /\ Cols(inputs) # layers[1]

\* C12: whenever the target batch's row count differs from the input batch's
\* (a single-row target included) or the input feature count differs from
\* layers[0], train raises before any weight or bias is modified: it never
\* computes errors from the mismatched matrices and never updates the model
C12_DimensionMismatchFailsFast ==
    TrainMismatch =>
        /\ pc \in {"step", "predict", "objective", "ValueError", "IndexError"}
        /\ errors = <<>>
        /\ epoch = 0 /\ run = 0
        /\ weights = step_weights /\ biases = step_biases

\* ------------------------------------------------------------------------
\* The polynomial regressor's update rule
\* ------------------------------------------------------------------------

\* a run of the polynomial Model's train has just ended
RunFinished == pc \in {"poly_run", "poly_done"} /\ grad_y_pred # <<>>

\* x_i^j: self.x_matrix holds it in row j, column i (both counted from 1 here)
XPower(ii, jj) == self_x_matrix[jj + 1][ii]

\* y_hat_i = sum over j of theta_j * x_i^j, from the coefficients before the run
YHatBefore(ii) ==
    SumSeq([jj \in 1..(self_n + 1) |-> Mul(step_weights[1][jj], XPower(ii, jj - 1))])

\* the gradient as the notebook states it:
\* g_j = (1/N) * sum over i of (y_i - y_hat_i) * x_i^j
StatedPolyGradient(jj) ==
    Mul(Recip(self_input_size),
        SumSeq([ii \in 1..self_input_size |->
            Mul(Sub(self_y[ii], YHatBefore(ii)), XPower(ii, jj))]))

\* the gradient of the mean squared error:
\* (1/N) * sum over i of (y_hat_i - y_i) * x_i^j
MSEGradient(jj) ==
    Mul(Recip(self_input_size),
        SumSeq([ii \in 1..self_input_size |->
            Mul(Sub(YHatBefore(ii), self_y[ii]), XPower(ii, jj))]))

\* C13 (as stated): in every run of the polynomial Model's train every
\* coefficient theta_j, j = 0..n, is replaced by theta_j - lr * g_j with
\* g_j = (1/N) * sum_i (y_i - y_hat_i) * x_i^j, y_hat from the coefficients
\* before the run
C13_UpdateByStatedGradient ==
    RunFinished =>
        \A jj \in 0..self_n :
            weights[1][jj + 1] =
                Sub(step_weights[1][jj + 1], Mul(lr, StatedPolyGradient(jj)))

\* C13 (amended): in every run every coefficient theta_j, j = 0..n, is
\* replaced by theta_j - lr * g_j with g_j = (1/N) * sum_i (y_hat_i - y_i) * x_i^j,
\* the gradient of the mean squared error, y_hat from the coefficients before
\* the run
C13_UpdateByMSEGradient ==
    RunFinished =>
        \A jj \in 0..self_n :
            weights[1][jj + 1] =
                Sub(step_weights[1][jj + 1], Mul(lr, MSEGradient(jj)))

\* C13 witness: a second-order fit of two samples has finished its second run,
\* and in that run every coefficient's gradient was non-zero
C13_Witness ==
    /\ pc = "poly_done" /\ self_n = 2 /\ self_input_size = 2
    /\ num_epochs * t = 2
    /\ \A jj \in 0..self_n : MSEGradient(jj) # Zero

\* ------------------------------------------------------------------------
\* Which layers a training step updates, and in what order it works
\* ------------------------------------------------------------------------

RECURSIVE ErrorSignalFrom(_, _)
\* the error signal of layer transition k (k from 0) computed from the weight
\* matrices ws: prediction - target for k = L-2, and below it the signal of
\* k+1 times ws[k+1]^T, masked by (cached output of k > 0)
ErrorSignalFrom(ws, k) ==
    IF k = L - 2
    THEN [r \in 1..Len(y_hat) |-> [c \in 1..layers[L] |->
            Sub(y_hat[r][c], outputs[r][c])]]
    ELSE LET nxt == ErrorSignalFrom(ws, k + 1)
         IN  [r \in 1..Len(y_hat) |-> [c \in 1..layers[k + 2] |->
                Mul(SumSeq([m \in 1..layers[k + 3] |->
                        Mul(nxt[r][m], ws[k + 2][c][m])]),
                    IF IsPos(activated[k + 1][r][c]) THEN One ELSE Zero)]]

\* the gradient of weight matrix k (k from 0) computed from the weight
\* matrices ws: (input of transition k)^T * (error signal of k)
GradientFrom(ws, k) ==
    [a \in 1..layers[k + 1] |-> [c \in 1..layers[k + 2] |->
        TransposeTimes(IF k = 0 THEN inputs ELSE activated[k],
                       ErrorSignalFrom(ws, k), a, c)]]

\* no step changes the last weight matrix or the last bias vector
LastLayerKept ==
    /\ weights'[L - 1] = weights[L - 1]
    /\ biases'[L - 1] = biases[L - 1]

\* at the end of a step every weight matrix of index 0..L-3 is the one the
\* step started with, updated with its gradient and the weight decay
EarlierLayersUpdated ==
    StepFinished =>
        \A k \in 0..(L - 3) :
            weights[k + 1] =
                StatedNewWeight(step_weights[k + 1], GradientFrom(step_weights, k))

\* C14: after any number of training steps, with any inputs, targets and
\* learning rate, the last weight matrix (index L-2) and the last bias vector
\* (index L-2) are as they were at construction (no step of the program
\* changes them), while the update step with weight decay is applied to every
\* weight matrix of index 0..L-3
C14_LastLayerNeverTrained ==
    [][LastLayerKept]_vars /\ []EarlierLayersUpdated

\* C14 witness: a train call of two steps on a network of four layer sizes has
\* returned, and its last step changed weight matrices 0 and 1
C14_Witness ==
    /\ pc = "done" /\ ret_of = "train" /\ L = 4 /\ num_epochs * t = 2
    /\ weights[1] # step_weights[1] /\ weights[2] # step_weights[2]
    /\ weights[3] = step_weights[3]

\* the forward pass, the error signals and the gradients of a step are being
\* computed (the update loop has not made its first pass)
StepComputing ==
    \/ caller = "train" /\ pc \in {"predict", "objective", "zprimes", "backward",
                                     "deltas"}
    \/ pc = "update" /\ j = 0

\* C15: in every training step no weight or bias is modified until every
\* error signal and gradient of the step has been computed; the error signals
\* are those computed from the weights and biases that produced the step's
\* forward pass; and every updated weight and bias is the old one minus the
\* step computed from those old weights alone, so no update depends on the
\* already-updated value of another weight (the updates are simultaneous)
C15_UpdateOrdering ==
    /\ StepComputing => weights = step_weights /\ biases = step_biases
    /\ (pc = "update" \/ StepFinished) =>
          /\ y_hat = Forward(step_weights, step_biases, inputs, L - 1)
          /\ \A k \in 0..(L - 2) : z_primes[k + 1] = ErrorSignalFrom(step_weights, k)
    /\ StepFinished =>
          \A k \in 0..(L - 3) :
              /\ weights[k + 1] =
                    StatedNewWeight(step_weights[k + 1], GradientFrom(step_weights, k))
              /\ biases[k + 1] =
                    StatedNewBias(step_biases[k + 1], ErrorSignalFrom(step_weights, k))

\* C15 witness: the second step of a train call on a network of four layer
\* sizes has ended; it changed weight matrix 1, which its backward pass had
\* read to compute the (non-zero) error signal 0
C15_Witness ==
    /\ StepFinished /\ L = 4 /\ (run > 0 \/ epoch > 0 \/ pc = "done")
    /\ num_epochs * t = 2
    /\ step_weights # weights /\ weights[2] # step_weights[2]
    /\ \E r \in 1..Len(z_primes[1]) : z_primes[1][r][1] # Zero

====
